---- MODULE Spec2Model ----
(***************************************************************************)
(* Compact mobile mode controller (class CompactMobileMode, the module     *)
(* singleton initCompactMobileMode / getCompactMobileMode /                *)
(* destroyCompactMobileMode) and the browser objects it acts on: the       *)
(* document root's class list and inline custom properties, the            *)
(* MediaQueryList objects and their 'change' listeners, the                *)
(* ResizeObserver of each controller and window.innerWidth.                *)
(*                                                                         *)
(* Numbers with a fraction (scale factors) are kept in thousandths:        *)
(* 857 is 0.857, 800 is 0.8.                                               *)
(***************************************************************************)
EXTENDS Integers, Sequences, FiniteSets, TLC

VARIABLES
    instances,          \* every CompactMobileMode object constructed so far
    compactMobileMode,  \* the module-level global: 0 is null, else an index of instances
    mediaQueryLists,    \* MediaQueryList objects in creation order, with their listeners
    innerWidth,         \* window.innerWidth
    rootClasses,        \* document.documentElement.classList
    rootStyle,          \* document.documentElement.style, the custom properties
    loaded,             \* the module's top-level code has run
    domListener,        \* a DOMContentLoaded listener is registered and has not fired
    dispatched,         \* compactModeChange events dispatched by the last step
    last,               \* the operation the last step performed
    prev,               \* the manual operation of the step before, when the last
                        \* step is a manual operation on the same controller
    hook,               \* the state of the component using useCompactMobileMode
    viewport,           \* handleViewportChanges: its listeners and the timers it set
    touch               \* the document's touch listeners, the elements' inline
                        \* styles and the feedback timers

vars == <<instances, compactMobileMode, mediaQueryLists, innerWidth,
          rootClasses, rootStyle, loaded, domListener, dispatched,
          last, prev, hook, viewport, touch>>

----------------------------------------------------------------------------
(* Bounds of the model *)

MaxInstances == 2       \* CompactMobileMode objects constructed in one run
MaxLists == 2           \* MediaQueryList objects created in one run (one by each
                        \* constructor, one by each updateConfig)
MaxTimers == 4          \* setTimeout calls made by the viewport handlers in one run
MaxFeedbackTimers == 2  \* setTimeout calls made by addTouchFeedback in one run

(* Viewport widths the window takes: at and just above the default         *)
(* breakpoint (below the other one), and above every breakpoint.           *)
Widths == {480, 481, 800}

----------------------------------------------------------------------------
(* Configuration *)

ConfigFields == {"autoEnable", "breakpoint", "scaleFactor", "touchMinSize",
                 "enablePassiveListeners"}

DefaultBreakpoint == 480
DefaultScaleFactor == 857
DefaultTouchMinSize == 40

DefaultConfig ==
    [autoEnable |-> TRUE,
     breakpoint |-> DefaultBreakpoint,
     scaleFactor |-> DefaultScaleFactor,
     touchMinSize |-> DefaultTouchMinSize,
     enablePassiveListeners |-> TRUE]

(* A Partial<CompactModeConfig> is a list of (field, value) pairs; the     *)
(* callers of the model pass one of these.                                 *)
PartialConfigs ==
    { <<>>,
      << <<"autoEnable", FALSE>> >>,
      << <<"breakpoint", 768>>, <<"scaleFactor", 900>> >> }

(* { ...config, ...partial } *)
RECURSIVE SpreadConfig(_, _)
SpreadConfig(config, partial) ==
    IF partial = <<>> THEN config
    ELSE SpreadConfig([config EXCEPT ![Head(partial)[1]] = Head(partial)[2]],
                      Tail(partial))

----------------------------------------------------------------------------
(* Number formatting: Number.prototype.toString and `${n}px` *)

Digit(d) == CASE d = 0 -> "0" [] d = 1 -> "1" [] d = 2 -> "2" [] d = 3 -> "3"
              [] d = 4 -> "4" [] d = 5 -> "5" [] d = 6 -> "6" [] d = 7 -> "7"
              [] d = 8 -> "8" [] d = 9 -> "9"

RECURSIVE IntToString(_)
IntToString(n) ==
    IF n < 10 THEN Digit(n) ELSE IntToString(n \div 10) \o Digit(n % 10)

(* the fraction digits of t thousandths, without trailing zeros *)
FractionToString(t) ==
    IF t % 1000 = 0 THEN ""
    ELSE IF t % 100 = 0 THEN "." \o Digit((t % 1000) \div 100)
    ELSE IF t % 10 = 0 THEN "." \o Digit((t % 1000) \div 100) \o Digit((t % 100) \div 10)
    ELSE "." \o Digit((t % 1000) \div 100) \o Digit((t % 100) \div 10) \o Digit(t % 10)

(* scale.toString() of a number given in thousandths *)
NumberToString(t) == IntToString(t \div 1000) \o FractionToString(t)

Px(n) == IntToString(n) \o "px"

----------------------------------------------------------------------------
(* The document root's style *)

ScaleProp == "--compact-scale-factor"
FontProp == "--compact-font-base"
TouchProp == "--compact-touch-min-size"
CSSProps == {ScaleProp, FontProp, TouchProp}

(* getPropertyValue of a property that is not set *)
NoValue == ""

EmptyStyle == [p \in CSSProps |-> NoValue]

SmallerScale == 800
SmallerFont == 11
NormalFont == 12

(* the value `undefined` of an omitted numeric argument *)
Undefined == 0

----------------------------------------------------------------------------
(* The world the controller code runs in, as one record, so that each      *)
(* method is a function from world to world and a handler's calls compose. *)

World ==
    [instances |-> instances,
     mediaQueryLists |-> mediaQueryLists,
     innerWidth |-> innerWidth,
     rootClasses |-> rootClasses,
     rootStyle |-> rootStyle,
     events |-> <<>>]

(* field values of a freshly allocated CompactMobileMode, before init() *)
NewInstance(config) ==
    [config |-> SpreadConfig(DefaultConfig, config),
     isCompactMode |-> FALSE,
     isManualMode |-> FALSE,
     resizeObserver |-> "null",
     mediaQuery |-> 0]

(* window.matchMedia(`(max-width: ${breakpoint}px)`).matches at a width *)
Matches(breakpoint, width) == width <= breakpoint

(* EventTarget.removeEventListener: drops the listener whose callback is   *)
(* the function object fn                                                  *)
removeEventListener(listeners, fn) ==
    SelectSeq(listeners, LAMBDA l : l.fn # fn)

(* this.handleMediaQueryChange.bind(this) makes a new function object on   *)
(* every call. A bound function that setupMediaQuery registers is numbered *)
(* by the list it is registered on (each list gets one); a bound function  *)
(* made as the argument of removeEventListener is registered on no list.   *)
BindForSetup(W) == Len(W.mediaQueryLists) + 1
BindForRemove(W) == 0

setupMediaQuery(W, c) ==
    LET mql == [breakpoint |-> W.instances[c].config.breakpoint,
                listeners |-> << [fn |-> BindForSetup(W), this |-> c] >>]
    IN [W EXCEPT !.mediaQueryLists = Append(@, mql),
                 !.instances[c].mediaQuery = Len(W.mediaQueryLists) + 1]

setupResizeObserver(W, c) ==
    [W EXCEPT !.instances[c].resizeObserver = "observing"]

updateCSSProperties(W, c, scaleFactor, fontSize) ==
    LET scale == IF scaleFactor # Undefined THEN scaleFactor
                 ELSE W.instances[c].config.scaleFactor
        font == IF fontSize # Undefined THEN fontSize ELSE NormalFont
    IN [W EXCEPT !.rootStyle =
           [p \in CSSProps |->
               CASE p = ScaleProp -> NumberToString(scale)
                 [] p = FontProp -> Px(font)
                 [] p = TouchProp -> Px(W.instances[c].config.touchMinSize)]]

resetCSSProperties(W) ==
    [W EXCEPT !.rootStyle = EmptyStyle]

(* document.dispatchEvent runs the subscribers at once: with the detail,   *)
(* an event carries what they find on the root when they run (seen) and    *)
(* the controller that dispatched it (source)                              *)
dispatchCompactModeEvent(W, c, action) ==
    [W EXCEPT !.events = Append(@,
        [action |-> action,
         isCompact |-> W.instances[c].isCompactMode,
         scaleFactor |-> W.instances[c].config.scaleFactor,
         source |-> c,
         seen |-> [classes |-> W.rootClasses, style |-> W.rootStyle]])]

(* enableCompactMode without the early return *)
enableCompactMode_unguarded(W, c) ==
    LET W1 == [W EXCEPT !.instances[c].isCompactMode = TRUE,
                        !.rootClasses = @ \cup {"compact-mode"}]
        W2 == updateCSSProperties(W1, c, Undefined, Undefined)
    IN dispatchCompactModeEvent(W2, c, "enabled")

(* enableCompactMode that also marks the controller as manually set *)
enableCompactMode_manual(W, c) ==
    IF W.instances[c].isCompactMode THEN W
    ELSE LET W1 == [W EXCEPT !.instances[c].isCompactMode = TRUE,
                             !.instances[c].isManualMode = TRUE,
                             !.rootClasses = @ \cup {"compact-mode"}]
             W2 == updateCSSProperties(W1, c, Undefined, Undefined)
         IN dispatchCompactModeEvent(W2, c, "enabled")

(* enableCompactMode that dispatches the event before it styles the root *)
enableCompactMode_eventFirst(W, c) ==
    IF W.instances[c].isCompactMode THEN W
    ELSE LET W1 == [W EXCEPT !.instances[c].isCompactMode = TRUE]
             W2 == dispatchCompactModeEvent(W1, c, "enabled")
         IN updateCSSProperties([W2 EXCEPT !.rootClasses = @ \cup {"compact-mode"}],
                                c, Undefined, Undefined)

enableCompactMode(W, c) ==
    IF W.instances[c].isCompactMode THEN W
    ELSE LET W1 == [W EXCEPT !.instances[c].isCompactMode = TRUE,
                             !.rootClasses = @ \cup {"compact-mode"}]
             W2 == updateCSSProperties(W1, c, Undefined, Undefined)
         IN dispatchCompactModeEvent(W2, c, "enabled")

(* disableCompactMode that removes only the 'compact-mode' class *)
disableCompactMode_keepLevel(W, c) ==
    IF ~W.instances[c].isCompactMode THEN W
    ELSE LET W1 == [W EXCEPT !.instances[c].isCompactMode = FALSE,
                             !.rootClasses = @ \ {"compact-mode"}]
             W2 == resetCSSProperties(W1)
         IN dispatchCompactModeEvent(W2, c, "disabled")

disableCompactMode(W, c) ==
    IF ~W.instances[c].isCompactMode THEN W
    ELSE LET W1 == [W EXCEPT !.instances[c].isCompactMode = FALSE,
                             !.rootClasses = @ \ {"compact-mode", "compact-mode-smaller"}]
             W2 == resetCSSProperties(W1)
         IN dispatchCompactModeEvent(W2, c, "disabled")

(* autoDetectAndApply with the breakpoint itself counted as wide *)
autoDetectAndApply_strict(W, c) ==
    LET this == W.instances[c]
        shouldEnable == W.innerWidth < this.config.breakpoint
    IN IF ~this.config.autoEnable \/ this.isManualMode THEN W
       ELSE IF shouldEnable /\ ~this.isCompactMode THEN enableCompactMode(W, c)
       ELSE IF ~shouldEnable /\ this.isCompactMode THEN disableCompactMode(W, c)
       ELSE W

(* autoDetectAndApply that does not look at config.autoEnable *)
autoDetectAndApply_always(W, c) ==
    LET this == W.instances[c]
        shouldEnable == W.innerWidth <= this.config.breakpoint
    IN IF this.isManualMode THEN W
       ELSE IF shouldEnable /\ ~this.isCompactMode THEN enableCompactMode(W, c)
       ELSE IF ~shouldEnable /\ this.isCompactMode THEN disableCompactMode(W, c)
       ELSE W

(* autoDetectAndApply without the manual-mode guard *)
autoDetectAndApply_unguarded(W, c) ==
    LET this == W.instances[c]
        shouldEnable == W.innerWidth <= this.config.breakpoint
    IN IF ~this.config.autoEnable THEN W
       ELSE IF shouldEnable /\ ~this.isCompactMode THEN enableCompactMode(W, c)
       ELSE IF ~shouldEnable /\ this.isCompactMode THEN disableCompactMode(W, c)
       ELSE W

autoDetectAndApply(W, c) ==
    LET this == W.instances[c]
        shouldEnable == W.innerWidth <= this.config.breakpoint
    IN IF ~this.config.autoEnable \/ this.isManualMode THEN W
       ELSE IF shouldEnable /\ ~this.isCompactMode THEN enableCompactMode(W, c)
       ELSE IF ~shouldEnable /\ this.isCompactMode THEN disableCompactMode(W, c)
       ELSE W

handleMediaQueryChange(W, c) ==
    IF ~W.instances[c].isManualMode THEN autoDetectAndApply(W, c) ELSE W

(* toggleCompactMode that only ever switches compact mode on *)
toggleCompactMode_enableOnly(W, c) ==
    LET W1 == [W EXCEPT !.instances[c].isManualMode = TRUE]
    IN enableCompactMode(W1, c)

toggleCompactMode(W, c) ==
    LET W1 == [W EXCEPT !.instances[c].isManualMode = TRUE]
    IN IF W1.instances[c].isCompactMode THEN disableCompactMode(W1, c)
       ELSE enableCompactMode(W1, c)

(* setCompactModeLevel whose 'normal' branch leaves the level class on *)
setCompactModeLevel_keepClass(W, c, level) ==
    LET W1 == [W EXCEPT !.instances[c].isManualMode = TRUE]
    IN IF level = "smaller"
       THEN updateCSSProperties(
                [W1 EXCEPT !.rootClasses = @ \cup {"compact-mode-smaller"}],
                c, SmallerScale, SmallerFont)
       ELSE updateCSSProperties(W1, c, Undefined, Undefined)

(* setCompactModeLevel that switches compact mode on for 'smaller' *)
setCompactModeLevel_enabling(W, c, level) ==
    LET W1 == [W EXCEPT !.instances[c].isManualMode = TRUE]
    IN IF level = "smaller"
       THEN updateCSSProperties(
                [enableCompactMode(W1, c) EXCEPT !.rootClasses = @ \cup {"compact-mode-smaller"}],
                c, SmallerScale, SmallerFont)
       ELSE updateCSSProperties(
                [W1 EXCEPT !.rootClasses = @ \ {"compact-mode-smaller"}],
                c, Undefined, Undefined)

setCompactModeLevel(W, c, level) ==
    LET W1 == [W EXCEPT !.instances[c].isManualMode = TRUE]
    IN IF level = "smaller"
       THEN updateCSSProperties(
                [W1 EXCEPT !.rootClasses = @ \cup {"compact-mode-smaller"}],
                c, SmallerScale, SmallerFont)
       ELSE updateCSSProperties(
                [W1 EXCEPT !.rootClasses = @ \ {"compact-mode-smaller"}],
                c, Undefined, Undefined)

getStatus(W, c) ==
    [isCompact |-> W.instances[c].isCompactMode,
     isManual |-> W.instances[c].isManualMode,
     scaleFactor |-> W.instances[c].config.scaleFactor]

(* this.mediaQuery.removeEventListener('change', handler.bind(this)): the  *)
(* callback handed over is the function object the bind call just made     *)
removeMediaQueryListener(W, c) ==
    LET m == W.instances[c].mediaQuery
    IN IF m # 0
       THEN [W EXCEPT !.mediaQueryLists[m].listeners =
                          removeEventListener(@, BindForRemove(W))]
       ELSE W

updateConfig(W, c, newConfig) ==
    LET W1 == [W EXCEPT !.instances[c].config = SpreadConfig(@, newConfig)]
        W2 == removeMediaQueryListener(W1, c)
        W3 == setupMediaQuery(W2, c)
    IN IF W3.instances[c].isCompactMode
       THEN updateCSSProperties(W3, c, Undefined, Undefined)
       ELSE W3

destroy(W, c) ==
    LET W1 == removeMediaQueryListener(W, c)
        W2 == IF W1.instances[c].resizeObserver # "null"
              THEN [W1 EXCEPT !.instances[c].resizeObserver = "disconnected"]
              ELSE W1
    IN disableCompactMode(W2, c)

(* init(), without the touch listeners, which touch neither the controller *)
(* fields nor the root's classes and custom properties                     *)
init(W, c) ==
    autoDetectAndApply(setupResizeObserver(setupMediaQuery(W, c), c), c)

(* new CompactMobileMode(config): the new object is the last of instances  *)
Construct(W, config) ==
    init([W EXCEPT !.instances = Append(@, NewInstance(config))],
         Len(W.instances) + 1)

----------------------------------------------------------------------------
(* Delivery of browser notifications *)

(* the 'change' listeners of one MediaQueryList run in registration order *)
RECURSIVE RunListeners(_, _)
RunListeners(W, listeners) ==
    IF listeners = <<>> THEN W
    ELSE RunListeners(handleMediaQueryChange(W, Head(listeners).this), Tail(listeners))

(* "evaluate media queries and report changes": the lists from the i-th on, *)
(* oldest first; a list whose match state changed between the widths gets   *)
(* a 'change' event                                                         *)
RECURSIVE ReportMediaQueryChanges(_, _, _)
ReportMediaQueryChanges(W, oldWidth, i) ==
    IF i > Len(W.mediaQueryLists) THEN W
    ELSE LET mql == W.mediaQueryLists[i]
             W1 == IF Matches(mql.breakpoint, oldWidth) # Matches(mql.breakpoint, W.innerWidth)
                   THEN RunListeners(W, mql.listeners)
                   ELSE W
         IN ReportMediaQueryChanges(W1, oldWidth, i + 1)

(* the callbacks of the ResizeObserver objects that observe the root, from  *)
(* the c-th controller's on (setupResizeObserver's arrow function)          *)
RECURSIVE DeliverResizeObservations(_, _)
DeliverResizeObservations(W, c) ==
    IF c > Len(W.instances) THEN W
    ELSE DeliverResizeObservations(
             IF W.instances[c].resizeObserver = "observing"
             THEN autoDetectAndApply(W, c) ELSE W,
             c + 1)

----------------------------------------------------------------------------
(* The module-level singleton *)

getCompactMobileMode == compactMobileMode

Levels == {"normal", "smaller"}

Op(name, c, arg) == [op |-> name, c |-> c, arg |-> arg]

ManualOps == {"toggleCompactMode", "setCompactModeLevel"}

ManualTag(op) == IF op.op = "toggleCompactMode" THEN "toggle" ELSE op.arg

(* useCompactMobileMode: the useState initial values; compactMode 0 is null *)
InitialScaleFactor == 1000

UnmountedHook ==
    [mounted |-> FALSE,
     compactMode |-> 0,
     isCompactMode |-> FALSE,
     isManualMode |-> FALSE,
     scaleFactor |-> InitialScaleFactor]

(* the hook's listener for 'compactModeChange' on document *)
handleCompactModeChange(h, event) ==
    [h EXCEPT !.isCompactMode = event.isCompact,
              !.scaleFactor = event.scaleFactor]

(* document delivers the step's events, in order, to the listener of a     *)
(* mounted hook                                                            *)
RECURSIVE DeliverToHook(_, _, _)
DeliverToHook(h, events, i) ==
    IF ~h.mounted \/ i > Len(events) THEN h
    ELSE DeliverToHook(handleCompactModeChange(h, events[i]), events, i + 1)

(* the mount effect of useCompactMobileMode *)
useEffectMount(W, mode) ==
    IF mode # 0
    THEN LET status == getStatus(W, mode)
         IN [mounted |-> TRUE,
             compactMode |-> mode,
             isCompactMode |-> status.isCompact,
             isManualMode |-> status.isManual,
             scaleFactor |-> status.scaleFactor]
    ELSE [UnmountedHook EXCEPT !.mounted = TRUE]

(* handleViewportChanges before it is called: no listener, timeoutId       *)
(* undefined (0), no timer. A timer is [id, kind, remaining]: remaining is *)
(* the time in ms until it fires.                                          *)
ResizeDelay == 100
OrientationDelay == 500

NoViewport ==
    [listening |-> FALSE,
     cleaned |-> FALSE,
     timeoutId |-> 0,
     created |-> 0,
     timers |-> {},
     step |-> "none"]

setTimeout(v, kind, delay) ==
    [v EXCEPT !.created = @ + 1,
              !.timers = @ \cup {[id |-> v.created + 1, kind |-> kind, remaining |-> delay]}]

(* clearTimeout of an id that is undefined or has fired does nothing *)
clearTimeout(v, id) ==
    [v EXCEPT !.timers = {t \in @ : t.id # id}]

handleResize(v) ==
    LET v1 == clearTimeout(v, v.timeoutId)
        v2 == setTimeout(v1, "resize", ResizeDelay)
    IN [v2 EXCEPT !.timeoutId = v2.created, !.step = "resize"]

handleOrientationChange(v) ==
    [setTimeout(v, "orientationchange", OrientationDelay) EXCEPT !.step = "orientationchange"]

(* the function handleViewportChanges returns *)
cleanupViewport(v) ==
    [clearTimeout(v, v.timeoutId) EXCEPT !.listening = FALSE,
                                         !.cleaned = TRUE,
                                         !.step = "cleanup"]

(* The elements of the page a touch can target: tagName, role attribute    *)
(* ("null" when absent) and classList.                                     *)
Elements == {"button", "tab", "target", "panel"}

ElementProps(el) ==
    CASE el = "button" -> [tagName |-> "BUTTON", role |-> "null", classList |-> {}]
      [] el = "tab"    -> [tagName |-> "DIV", role |-> "tab", classList |-> {"label"}]
      [] el = "target" -> [tagName |-> "SPAN", role |-> "null", classList |-> {"touch-target"}]
      [] el = "panel"  -> [tagName |-> "DIV", role |-> "tabpanel", classList |-> {"touch-area"}]

ToLowerCase(tagName) ==
    CASE tagName = "BUTTON" -> "button"
      [] tagName = "DIV" -> "div"
      [] tagName = "SPAN" -> "span"

interactiveTags == {"button", "a", "input", "select", "textarea"}
interactiveRoles == {"button", "link", "tab", "menuitem", "option"}

isInteractiveElement(el) ==
    LET element == ElementProps(el)
        role == IF element.role = "null" THEN "" ELSE element.role
    IN \/ ToLowerCase(element.tagName) \in interactiveTags
       \/ role \in interactiveRoles
       \/ "touch-target" \in element.classList
       \/ "touch-optimized" \in element.classList

TouchEvents == {"touchstart", "touchmove", "touchend", "touchcancel"}
FeedbackDelay == 100

(* no touch listener on document, no inline style on any element, no timer; *)
(* a timer is [id, element, remaining]                                      *)
NoTouch ==
    [listeners |-> 0,
     opacity |-> [el \in Elements |-> ""],
     transition |-> [el \in Elements |-> ""],
     timers |-> {},
     created |-> 0,
     step |-> "none"]

(* setupPassiveListeners: one bound handleTouchEvent for the four events *)
setupPassiveListeners(t, config) ==
    IF ~config.enablePassiveListeners THEN t
    ELSE [t EXCEPT !.listeners = @ + 1]

(* addTouchFeedback without the timer that restores the opacity *)
addTouchFeedback_noRestore(t, el) ==
    [t EXCEPT !.transition[el] = "opacity 0.1s ease",
              !.opacity[el] = "0.8"]

addTouchFeedback(t, el) ==
    [t EXCEPT !.transition[el] = "opacity 0.1s ease",
              !.opacity[el] = "0.8",
              !.created = @ + 1,
              !.timers = @ \cup {[id |-> t.created + 1, element |-> el,
                                  remaining |-> FeedbackDelay]}]

handleTouchEvent(t, type, target) ==
    IF type = "touchstart" /\ isInteractiveElement(target)
    THEN addTouchFeedback(t, target)
    ELSE t

(* document runs its listeners for the event, one after the other *)
RECURSIVE DispatchTouchEvent(_, _, _, _)
DispatchTouchEvent(t, type, target, n) ==
    IF n = 0 THEN t
    ELSE DispatchTouchEvent(handleTouchEvent(t, type, target), type, target, n - 1)

(* the timer's arrow function: element.style.opacity = '' *)
restoreOpacity(t, timer) ==
    [t EXCEPT !.opacity[timer.element] = "", !.timers = @ \ {timer}]

(* the step's world becomes the state; the step is recorded *)
CommitWorld(W, op) ==
    /\ instances' = W.instances
    /\ mediaQueryLists' = W.mediaQueryLists
    /\ innerWidth' = W.innerWidth
    /\ rootClasses' = W.rootClasses
    /\ rootStyle' = W.rootStyle
    /\ dispatched' = W.events
    /\ last' = op
    /\ prev' = IF op.op \in ManualOps /\ last.op \in ManualOps /\ op.c = last.c
               THEN ManualTag(last) ELSE ""
    /\ viewport' = viewport
    /\ touch' = IF Len(W.instances) > Len(instances)
                THEN setupPassiveListeners(touch, W.instances[Len(W.instances)].config)
                ELSE touch

Commit(W, op) ==
    /\ CommitWorld(W, op)
    /\ hook' = DeliverToHook(hook, W.events, 1)

(* initCompactMobileMode that constructs a controller on every call *)
initCompactMobileMode_always(config, caller) ==
    /\ Len(instances) < MaxInstances
    /\ Len(mediaQueryLists) < MaxLists
    /\ compactMobileMode' = Len(instances) + 1
    /\ Commit(Construct(World, config), Op(caller, Len(instances) + 1, "created"))

(* initCompactMobileMode(config) in a browser (window is defined) *)
initCompactMobileMode(config, caller) ==
    IF compactMobileMode = 0
    THEN /\ Len(instances) < MaxInstances
         /\ Len(mediaQueryLists) < MaxLists
         /\ compactMobileMode' = Len(instances) + 1
         /\ Commit(Construct(World, config), Op(caller, Len(instances) + 1, "created"))
    ELSE /\ compactMobileMode' = compactMobileMode
         /\ Commit(World, Op(caller, compactMobileMode, "existing"))

Init ==
    /\ instances = <<>>
    /\ compactMobileMode = 0
    /\ mediaQueryLists = <<>>
    /\ innerWidth \in Widths
    /\ rootClasses = {}
    /\ rootStyle = EmptyStyle
    /\ loaded = FALSE
    /\ domListener = FALSE
    /\ dispatched = <<>>
    /\ last = Op("none", 0, "")
    /\ prev = ""
    /\ hook = UnmountedHook
    /\ viewport = NoViewport
    /\ touch = NoTouch

(* the module's top-level code: auto-initialize when the DOM is ready *)
LoadModule ==
    /\ ~loaded
    /\ loaded' = TRUE
    /\ \E readyState \in {"loading", "interactive"} :
          IF readyState = "loading"
          THEN /\ domListener' = TRUE
               /\ compactMobileMode' = compactMobileMode
               /\ Commit(World, Op("load", 0, "loading"))
          ELSE /\ domListener' = domListener
               /\ initCompactMobileMode(<<>>, "autoInit")

DOMContentLoaded ==
    /\ domListener
    /\ domListener' = FALSE
    /\ initCompactMobileMode(<<>>, "autoInit")
    /\ UNCHANGED loaded

InitCompactMobileMode ==
    /\ loaded
    /\ \E config \in PartialConfigs : initCompactMobileMode(config, "initCompactMobileMode")
    /\ UNCHANGED <<loaded, domListener>>

DestroyCompactMobileMode ==
    /\ loaded
    /\ IF compactMobileMode # 0
       THEN /\ compactMobileMode' = 0
            /\ Commit(destroy(World, compactMobileMode),
                      Op("destroyCompactMobileMode", compactMobileMode, ""))
       ELSE /\ compactMobileMode' = compactMobileMode
            /\ Commit(World, Op("destroyCompactMobileMode", 0, ""))
    /\ UNCHANGED <<loaded, domListener>>

(* calls of the public methods on the controller getCompactMobileMode() returns *)
EnableCompactMode ==
    /\ compactMobileMode # 0
    /\ Commit(enableCompactMode(World, compactMobileMode),
              Op("enableCompactMode", compactMobileMode, ""))
    /\ UNCHANGED <<compactMobileMode, loaded, domListener>>

DisableCompactMode ==
    /\ compactMobileMode # 0
    /\ Commit(disableCompactMode(World, compactMobileMode),
              Op("disableCompactMode", compactMobileMode, ""))
    /\ UNCHANGED <<compactMobileMode, loaded, domListener>>

ToggleCompactMode ==
    /\ compactMobileMode # 0
    /\ Commit(toggleCompactMode(World, compactMobileMode),
              Op("toggleCompactMode", compactMobileMode, ""))
    /\ UNCHANGED <<compactMobileMode, loaded, domListener>>

SetCompactModeLevel ==
    /\ compactMobileMode # 0
    /\ \E level \in Levels :
          Commit(setCompactModeLevel(World, compactMobileMode, level),
                 Op("setCompactModeLevel", compactMobileMode, level))
    /\ UNCHANGED <<compactMobileMode, loaded, domListener>>

UpdateConfig ==
    /\ compactMobileMode # 0
    /\ Len(mediaQueryLists) < MaxLists
    /\ \E newConfig \in PartialConfigs :
          Commit(updateConfig(World, compactMobileMode, newConfig),
                 Op("updateConfig", compactMobileMode, ""))
    /\ UNCHANGED <<compactMobileMode, loaded, domListener>>

(* The window is resized to another width. The next rendering update       *)
(* reports the media-query changes and then, when the root element's box   *)
(* changed with the window, delivers the resize observations.              *)
Resize ==
    \E width \in Widths \ {innerWidth}, rootResized \in BOOLEAN :
       LET W1 == ReportMediaQueryChanges([World EXCEPT !.innerWidth = width], innerWidth, 1)
           W2 == IF rootResized THEN DeliverResizeObservations(W1, 1) ELSE W1
       IN /\ Commit(W2, Op("resize", 0, IF rootResized THEN "observed" ELSE ""))
          /\ UNCHANGED <<compactMobileMode, loaded, domListener>>

(* The root element's box changes at an unchanged window width (content    *)
(* height, the first observation after observe()).                         *)
ResizeNotify ==
    /\ \E c \in 1..Len(instances) : instances[c].resizeObserver = "observing"
    /\ Commit(DeliverResizeObservations(World, 1), Op("resizeNotify", 0, "observed"))
    /\ UNCHANGED <<compactMobileMode, loaded, domListener>>

Next ==
    \/ LoadModule
    \/ DOMContentLoaded
    \/ InitCompactMobileMode
    \/ DestroyCompactMobileMode
    \/ EnableCompactMode
    \/ DisableCompactMode
    \/ ToggleCompactMode
    \/ SetCompactModeLevel
    \/ UpdateConfig
    \/ Resize
    \/ ResizeNotify

Spec == Init /\ [][Next]_vars

----------------------------------------------------------------------------
(* A component that uses the useCompactMobileMode hook. Importing the hook *)
(* runs the module's top-level code, so the component mounts after it.     *)

MountHook ==
    /\ loaded /\ ~hook.mounted
    /\ hook' = useEffectMount(World, getCompactMobileMode)
    /\ CommitWorld(World, Op("hook.mount", getCompactMobileMode, ""))
    /\ UNCHANGED <<compactMobileMode, loaded, domListener>>

(* the effect's cleanup removes the listener; the component's state is gone *)
UnmountHook ==
    /\ hook.mounted
    /\ hook' = UnmountedHook
    /\ CommitWorld(World, Op("hook.unmount", hook.compactMode, ""))
    /\ UNCHANGED <<compactMobileMode, loaded, domListener>>

(* The hook's callbacks: each calls the controller held in the compactMode *)
(* state, if there is one. The recorded controller is the one the call     *)
(* went to, 0 when the callback did nothing.                               *)
HookEnableCompactMode ==
    /\ hook.mounted
    /\ Commit(IF hook.compactMode # 0
              THEN enableCompactMode(World, hook.compactMode) ELSE World,
              Op("hook.enableCompactMode", hook.compactMode, ""))
    /\ UNCHANGED <<compactMobileMode, loaded, domListener>>

HookDisableCompactMode ==
    /\ hook.mounted
    /\ Commit(IF hook.compactMode # 0
              THEN disableCompactMode(World, hook.compactMode) ELSE World,
              Op("hook.disableCompactMode", hook.compactMode, ""))
    /\ UNCHANGED <<compactMobileMode, loaded, domListener>>

HookToggleCompactMode ==
    /\ hook.mounted
    /\ Commit(IF hook.compactMode # 0
              THEN toggleCompactMode(World, hook.compactMode) ELSE World,
              Op("hook.toggleCompactMode", hook.compactMode, ""))
    /\ UNCHANGED <<compactMobileMode, loaded, domListener>>

HookSetCompactModeLevel ==
    /\ hook.mounted
    /\ \E level \in Levels :
          Commit(IF hook.compactMode # 0
                 THEN setCompactModeLevel(World, hook.compactMode, level) ELSE World,
                 Op("hook.setCompactModeLevel", hook.compactMode, level))
    /\ UNCHANGED <<compactMobileMode, loaded, domListener>>

HookOps == {"hook.enableCompactMode", "hook.disableCompactMode",
            "hook.toggleCompactMode", "hook.setCompactModeLevel"}

NextHook ==
    \/ LoadModule
    \/ DOMContentLoaded
    \/ InitCompactMobileMode
    \/ DestroyCompactMobileMode
    \/ Resize
    \/ ResizeNotify
    \/ MountHook
    \/ UnmountHook
    \/ HookEnableCompactMode
    \/ HookDisableCompactMode
    \/ HookToggleCompactMode
    \/ HookSetCompactModeLevel

SpecHook == Init /\ [][NextHook]_vars

----------------------------------------------------------------------------
(* handleViewportChanges(callback), as initializeMobileOptimizations calls *)
(* it, the window's events, the passing of time and the timers.            *)

controllerVars == <<instances, compactMobileMode, mediaQueryLists, innerWidth,
                    rootClasses, rootStyle, loaded, domListener, dispatched,
                    last, prev, hook, touch>>

HandleViewportChanges ==
    /\ ~viewport.listening /\ ~viewport.cleaned
    /\ viewport' = [viewport EXCEPT !.listening = TRUE, !.step = "listen"]
    /\ UNCHANGED controllerVars

WindowResize ==
    /\ viewport.listening
    /\ viewport.created < MaxTimers
    /\ viewport' = handleResize(viewport)
    /\ UNCHANGED controllerVars

WindowOrientationChange ==
    /\ viewport.listening
    /\ viewport.created < MaxTimers
    /\ viewport' = handleOrientationChange(viewport)
    /\ UNCHANGED controllerVars

CleanupViewport ==
    /\ viewport.listening
    /\ viewport' = cleanupViewport(viewport)
    /\ UNCHANGED controllerVars

(* Time passes, up to the moment the next timer is due. *)
TimePasses ==
    /\ viewport.timers # {}
    /\ \A t \in viewport.timers : t.remaining > 0
    /\ LET due == CHOOSE r \in {t.remaining : t \in viewport.timers} :
                      \A t \in viewport.timers : r <= t.remaining
       IN \E d \in {x \in {ResizeDelay, due} : x <= due} :
             viewport' = [viewport EXCEPT
                            !.timers = {[t EXCEPT !.remaining = @ - d] : t \in @},
                            !.step = "time"]
    /\ UNCHANGED controllerVars

(* A timer that is due fires and runs the callback. *)
TimerFires ==
    /\ \E t \in viewport.timers :
          /\ t.remaining = 0
          /\ viewport' = [viewport EXCEPT !.timers = @ \ {t}, !.step = "callback"]
    /\ UNCHANGED controllerVars

NextViewport ==
    \/ HandleViewportChanges
    \/ WindowResize
    \/ WindowOrientationChange
    \/ CleanupViewport
    \/ TimePasses
    \/ TimerFires

SpecViewport == Init /\ [][NextViewport]_vars

----------------------------------------------------------------------------
(* Touches on the page: controllers are created (with or without the      *)
(* passive listeners) and destroyed, touch events are dispatched on        *)
(* document, time passes and the feedback timers fire.                     *)

pageVars == <<instances, compactMobileMode, mediaQueryLists, innerWidth,
              rootClasses, rootStyle, loaded, domListener, dispatched,
              last, prev, hook, viewport>>

(* initCompactMobileMode with and without the passive listeners *)
ListenerConfigs == { <<>>, << <<"enablePassiveListeners", FALSE>> >> }

InitWithListenerConfig ==
    /\ loaded
    /\ \E config \in ListenerConfigs : initCompactMobileMode(config, "initCompactMobileMode")
    /\ UNCHANGED <<loaded, domListener>>

(* One touch event of any type on any element. The step records the        *)
(* element when the event changed it.                                      *)
TouchEvent ==
    /\ touch.created + touch.listeners <= MaxFeedbackTimers
    /\ \E type \in TouchEvents, target \in Elements :
          LET t == DispatchTouchEvent(touch, type, target, touch.listeners)
          IN touch' = IF t = touch THEN touch ELSE [t EXCEPT !.step = target]
    /\ UNCHANGED pageVars

(* Time passes, up to the moment the next feedback timer is due. *)
TouchTimePasses ==
    /\ touch.timers # {}
    /\ \A t \in touch.timers : t.remaining > 0
    /\ LET due == CHOOSE r \in {t.remaining : t \in touch.timers} :
                      \A t \in touch.timers : r <= t.remaining
       IN \E d \in {x \in {FeedbackDelay \div 2, due} : x <= due} :
             touch' = [touch EXCEPT
                         !.timers = {[t EXCEPT !.remaining = @ - d] : t \in @},
                         !.step = "time"]
    /\ UNCHANGED pageVars

(* A feedback timer that is due fires. *)
TouchTimerFires ==
    /\ \E t \in touch.timers :
          /\ t.remaining = 0
          /\ touch' = [restoreOpacity(touch, t) EXCEPT !.step = "timer"]
    /\ UNCHANGED pageVars

NextTouch ==
    \/ LoadModule
    \/ DOMContentLoaded
    \/ InitWithListenerConfig
    \/ DestroyCompactMobileMode
    \/ TouchEvent
    \/ TouchTimePasses
    \/ TouchTimerFires

(* The window's width plays no part in the touch feedback: the page is     *)
(* opened at one width, the default breakpoint.                            *)
InitTouch == Init /\ innerWidth = DefaultBreakpoint

(* time does pass and the browser does run a due timer *)
SpecTouch ==
    /\ InitTouch /\ [][NextTouch]_vars
    /\ WF_vars(TouchTimePasses)
    /\ WF_vars(TouchTimerFires)

----------------------------------------------------------------------------
(* Vocabulary of the properties *)

Controllers == 1..Len(instances)

AutoMode(this) == this.config.autoEnable /\ ~this.isManualMode

(* the world as it is, with the window at another width *)
WorldAt(width) == [World EXCEPT !.innerWidth = width]

(* the document root's styling in a world *)
RootOf(W) == [classes |-> W.rootClasses, style |-> W.rootStyle]

Root == RootOf(World)

ResizeObserved == last.op \in {"resize", "resizeNotify"} /\ last.arg = "observed"

----------------------------------------------------------------------------
(* C1: in auto mode (autoEnable true, isManualMode false) an evaluation at  *)
(* viewport width w leaves isCompactMode equal to (w <= breakpoint): for    *)
(* every reachable state and every width, whether autoDetectAndApply runs   *)
(* from the media-query listener or by itself; and in the state after a     *)
(* construction or after a resize observation was delivered, for the        *)
(* controllers that were evaluated.                                         *)
C1_AutoModeFollowsWidth ==
    /\ \A c \in Controllers, w \in Widths :
          AutoMode(instances[c]) =>
             /\ autoDetectAndApply(WorldAt(w), c).instances[c].isCompactMode
                   = (w <= instances[c].config.breakpoint)
             /\ handleMediaQueryChange(WorldAt(w), c).instances[c].isCompactMode
                   = (w <= instances[c].config.breakpoint)
    /\ ResizeObserved =>
          \A c \in Controllers :
             AutoMode(instances[c]) /\ instances[c].resizeObserver = "observing" =>
                instances[c].isCompactMode = (innerWidth <= instances[c].config.breakpoint)
    /\ last.arg = "created" /\ AutoMode(instances[last.c]) =>
          instances[last.c].isCompactMode
             = (innerWidth <= instances[last.c].config.breakpoint)

(* a resize observation at the breakpoint itself has switched an auto-mode  *)
(* controller to compact                                                    *)
C1_Witness ==
    /\ last.op = "resize" /\ last.arg = "observed"
    /\ \E c \in Controllers :
          /\ AutoMode(instances[c]) /\ instances[c].resizeObserver = "observing"
          /\ innerWidth = instances[c].config.breakpoint
          /\ instances[c].isCompactMode
          /\ \E e \in 1..Len(dispatched) :
                dispatched[e].source = c /\ dispatched[e].action = "enabled"

----------------------------------------------------------------------------
(* C2: manual mode is sticky. A controller whose isManualMode is true keeps *)
(* it true in every step; no step that delivers a media-query change or a   *)
(* resize observation changes its isCompactMode; and its two notification   *)
(* handlers, run at any width, change nothing at all: not the controller,   *)
(* not the root's classes, not the root's custom properties.                *)
C2_HandlersInertInManualMode ==
    \A c \in Controllers, w \in Widths :
       instances[c].isManualMode =>
          /\ handleMediaQueryChange(WorldAt(w), c) = WorldAt(w)
          /\ autoDetectAndApply(WorldAt(w), c) = WorldAt(w)

C2_ManualStep ==
    \A c \in Controllers :
       instances[c].isManualMode =>
          /\ instances'[c].isManualMode
          /\ last'.op \in {"resize", "resizeNotify"} =>
                instances'[c].isCompactMode = instances[c].isCompactMode

----------------------------------------------------------------------------
(* C3: toggleCompactMode negates isCompactMode and sets isManualMode, from  *)
(* every reachable state; a second toggle brings isCompactMode back to the  *)
(* value before the first, with isManualMode still true. The state after a  *)
(* toggle step is manual.                                                   *)
C3_ToggleNegates ==
    /\ \A c \in Controllers :
          LET W1 == toggleCompactMode(World, c)
              W2 == toggleCompactMode(W1, c)
          IN /\ W1.instances[c].isCompactMode = ~instances[c].isCompactMode
             /\ W1.instances[c].isManualMode
             /\ W2.instances[c].isCompactMode = instances[c].isCompactMode
             /\ W2.instances[c].isManualMode
    /\ last.op = "toggleCompactMode" =>
          /\ instances[last.c].isManualMode
          /\ Len(dispatched) = 1
          /\ instances[last.c].isCompactMode = (dispatched[1].action = "enabled")

(* two toggles in a row have run on the live controller, which is back to   *)
(* not compact at a narrow window                                           *)
C3_Witness ==
    /\ last.op = "toggleCompactMode" /\ prev = "toggle"
    /\ instances[last.c].isManualMode
    /\ ~instances[last.c].isCompactMode
    /\ innerWidth <= instances[last.c].config.breakpoint

----------------------------------------------------------------------------
(* C4: whenever a controller is live (the global holds it), its             *)
(* isCompactMode is true exactly when the root carries the 'compact-mode'   *)
(* class.                                                                   *)
C4_MarkerClassMatchesLive ==
    compactMobileMode # 0 =>
       (instances[compactMobileMode].isCompactMode <=> "compact-mode" \in rootClasses)

----------------------------------------------------------------------------
(* C5: whenever a controller is live, the three custom properties are set   *)
(* on the root when it is compact, and none of them is set when it is not.  *)
C5_PropertiesIffCompact ==
    compactMobileMode # 0 =>
       IF instances[compactMobileMode].isCompactMode
       THEN \A p \in CSSProps : rootStyle[p] # NoValue
       ELSE \A p \in CSSProps : rootStyle[p] = NoValue

----------------------------------------------------------------------------
(* C6: a destroyed controller (every constructed controller the global no   *)
(* longer holds) has no listener left on any MediaQueryList, observes       *)
(* nothing and is never compact again; and the state right after a destroy  *)
(* has neither level nor marker class nor custom property on the root.      *)
Destroyed(c) == c \in Controllers /\ c # compactMobileMode

ListensTo(c) ==
    {m \in 1..Len(mediaQueryLists) :
        \E l \in 1..Len(mediaQueryLists[m].listeners) :
            mediaQueryLists[m].listeners[l].this = c}

C6_DestroyedIsInert ==
    /\ \A c \in Controllers :
          Destroyed(c) =>
             /\ ListensTo(c) = {}
             /\ instances[c].resizeObserver # "observing"
             /\ ~instances[c].isCompactMode
    /\ last.op = "destroyCompactMobileMode" /\ last.c # 0 =>
          /\ rootClasses \cap {"compact-mode", "compact-mode-smaller"} = {}
          /\ rootStyle = EmptyStyle

----------------------------------------------------------------------------
(* C7: enableCompactMode on a compact controller and disableCompactMode on  *)
(* a controller that is not compact change nothing and dispatch nothing;    *)
(* and every step dispatches as many compactModeChange events as there are  *)
(* controllers whose isCompactMode it changed.                              *)
C7_NoOpWhenInTargetState ==
    \A c \in Controllers :
       IF instances[c].isCompactMode
       THEN enableCompactMode(World, c) = World
       ELSE disableCompactMode(World, c) = World

CompactBefore(c) == IF c \in Controllers THEN instances[c].isCompactMode ELSE FALSE

C7_EventPerChange ==
    Len(dispatched') =
       Cardinality({c \in 1..Len(instances') :
                       instances'[c].isCompactMode # CompactBefore(c)})

C7_EnableDisableIdempotent == []C7_NoOpWhenInTargetState /\ [][C7_EventPerChange]_vars

(* enableCompactMode has just been called on a controller that was compact  *)
(* already: nothing was dispatched                                          *)
C7_Witness ==
    /\ last.op = "enableCompactMode"
    /\ instances[last.c].isCompactMode
    /\ dispatched = <<>>
    /\ "compact-mode" \in rootClasses

----------------------------------------------------------------------------
(* C8: setCompactModeLevel('smaller') followed by                           *)
(* setCompactModeLevel('normal') on a controller leaves the published scale *)
(* factor equal to config.scaleFactor ("0.857" for the default), the base   *)
(* font at "12px" and the root without 'compact-mode-smaller'; when the     *)
(* controller was compact with the root at that normal level before, the    *)
(* root's classes and properties are the same after the pair as before.     *)
NormalStyle(this) ==
    [p \in CSSProps |->
        CASE p = ScaleProp -> NumberToString(this.config.scaleFactor)
          [] p = FontProp -> "12px"
          [] p = TouchProp -> Px(this.config.touchMinSize)]

AtNormalLevel(W, c) ==
    /\ "compact-mode-smaller" \notin W.rootClasses
    /\ W.rootStyle = NormalStyle(W.instances[c])
    /\ W.instances[c].config.scaleFactor = DefaultScaleFactor =>
          W.rootStyle[ScaleProp] = "0.857"

C8_LevelRoundTrip ==
    /\ \A c \in Controllers :
          LET W1 == setCompactModeLevel(World, c, "smaller")
              W2 == setCompactModeLevel(W1, c, "normal")
          IN /\ AtNormalLevel(W2, c)
             /\ instances[c].isCompactMode /\ AtNormalLevel(World, c) =>
                   RootOf(W2) = Root
    /\ last.op = "setCompactModeLevel" /\ last.arg = "normal" => AtNormalLevel(World, last.c)

(* 'smaller' and then 'normal' have been set on a compact controller with   *)
(* the default configuration                                                *)
C8_Witness ==
    /\ last.op = "setCompactModeLevel" /\ last.arg = "normal" /\ prev = "smaller"
    /\ instances[last.c].isCompactMode
    /\ instances[last.c].config.scaleFactor = DefaultScaleFactor
    /\ rootStyle[ScaleProp] = "0.857" /\ rootStyle[FontProp] = "12px"
    /\ rootClasses = {"compact-mode"}

----------------------------------------------------------------------------
(* C9: setCompactModeLevel, for both levels and from every reachable state, *)
(* sets isManualMode and changes neither isCompactMode nor the presence of  *)
(* the 'compact-mode' class on the root, and dispatches no event.           *)
C9_SetLevelFrame ==
    /\ \A c \in Controllers, level \in Levels :
          LET W1 == setCompactModeLevel(World, c, level)
          IN /\ W1.instances[c].isManualMode
             /\ W1.instances[c].isCompactMode = instances[c].isCompactMode
             /\ ("compact-mode" \in W1.rootClasses) = ("compact-mode" \in rootClasses)
    /\ last.op = "setCompactModeLevel" =>
          instances[last.c].isManualMode /\ dispatched = <<>>

(* 'smaller' has just been set on a controller that is not compact *)
C9_Witness ==
    /\ last.op = "setCompactModeLevel" /\ last.arg = "smaller"
    /\ instances[last.c].isManualMode
    /\ ~instances[last.c].isCompactMode
    /\ "compact-mode" \notin rootClasses

----------------------------------------------------------------------------
(* C10: the global holds null or the newest controller, and every other     *)
(* controller ever constructed has been destroyed; initCompactMobileMode    *)
(* with a controller in the global constructs nothing and changes no        *)
(* controller, list or root styling (its config is dropped); a controller   *)
(* is constructed only in a step that starts with the global null; after    *)
(* destroyCompactMobileMode, getCompactMobileMode returns null.             *)
C10_OneLive ==
    /\ compactMobileMode \in {0, Len(instances)}
    /\ \A c \in Controllers :
          c # compactMobileMode => instances[c].resizeObserver = "disconnected"
    /\ last.op = "destroyCompactMobileMode" => getCompactMobileMode = 0
    /\ last.op \in {"initCompactMobileMode", "autoInit"} =>
          getCompactMobileMode = last.c /\ last.c # 0

C10_InitStep ==
    /\ Len(instances') > Len(instances) =>
          /\ compactMobileMode = 0
          /\ Len(instances') = Len(instances) + 1
          /\ compactMobileMode' = Len(instances')
    /\ compactMobileMode # 0 /\ last'.op \in {"initCompactMobileMode", "autoInit"} =>
          UNCHANGED <<instances, compactMobileMode, mediaQueryLists, rootClasses, rootStyle>>

C10_Singleton == []C10_OneLive /\ [][C10_InitStep]_vars

(* initCompactMobileMode has just returned the second controller, made      *)
(* after the first was destroyed, instead of constructing a third           *)
C10_Witness ==
    /\ last.op = "initCompactMobileMode" /\ last.arg = "existing"
    /\ Len(instances) = 2 /\ compactMobileMode = 2
    /\ instances[1].resizeObserver = "disconnected"

----------------------------------------------------------------------------
(* C11: every change of isCompactMode dispatches exactly one                *)
(* compactModeChange event, and an event agrees with the state in effect    *)
(* when the subscribers run: its action is 'enabled' exactly when its       *)
(* isCompact is true, its isCompact is the controller's isCompactMode, and  *)
(* the subscribers find the marker class and the three custom properties    *)
(* on the root for 'enabled', and neither class nor property for            *)
(* 'disabled'. Checked for the events of every step, and for every method   *)
(* that can change isCompactMode, run from every reachable state.           *)
MarkerClasses == {"compact-mode", "compact-mode-smaller"}

EventAgrees(e) ==
    /\ (e.action = "enabled") = e.isCompact
    /\ e.action \in {"enabled", "disabled"}
    /\ IF e.isCompact
       THEN /\ "compact-mode" \in e.seen.classes
            /\ \A p \in CSSProps : e.seen.style[p] # NoValue
       ELSE /\ e.seen.classes \cap MarkerClasses = {}
            /\ e.seen.style = EmptyStyle

OneEventPerChange(W, c) ==
    /\ Len(W.events) =
          (IF W.instances[c].isCompactMode # instances[c].isCompactMode THEN 1 ELSE 0)
    /\ \A e \in 1..Len(W.events) :
          /\ EventAgrees(W.events[e])
          /\ W.events[e].source = c
          /\ W.events[e].isCompact = W.instances[c].isCompactMode

C11_EventAgreesWithState ==
    /\ \A e \in 1..Len(dispatched) :
          /\ EventAgrees(dispatched[e])
          /\ dispatched[e].isCompact = instances[dispatched[e].source].isCompactMode
    /\ \A c \in Controllers :
          /\ OneEventPerChange(enableCompactMode(World, c), c)
          /\ OneEventPerChange(disableCompactMode(World, c), c)
          /\ OneEventPerChange(toggleCompactMode(World, c), c)
          /\ OneEventPerChange(destroy(World, c), c)
          /\ \A w \in Widths :
                /\ OneEventPerChange(autoDetectAndApply(WorldAt(w), c), c)
                /\ OneEventPerChange(handleMediaQueryChange(WorldAt(w), c), c)

(* a toggle has just switched a compact controller off: one 'disabled'      *)
(* event, dispatched after the root was cleared                             *)
C11_Witness ==
    /\ last.op = "toggleCompactMode"
    /\ Len(dispatched) = 1
    /\ dispatched[1].action = "disabled" /\ ~dispatched[1].isCompact
    /\ dispatched[1].seen.style = EmptyStyle
    /\ ~instances[last.c].isCompactMode

----------------------------------------------------------------------------
(* C12: the scale factor a compact live controller reports through          *)
(* getStatus is the one published as --compact-scale-factor, and so is the  *)
(* scaleFactor of every 'enabled' event for what its subscribers find       *)
(* published.                                                               *)
C12_ReportedScaleIsApplied ==
    /\ compactMobileMode # 0 /\ instances[compactMobileMode].isCompactMode =>
          NumberToString(getStatus(World, compactMobileMode).scaleFactor)
             = rootStyle[ScaleProp]
    /\ \A e \in 1..Len(dispatched) :
          dispatched[e].isCompact =>
             NumberToString(dispatched[e].scaleFactor) = dispatched[e].seen.style[ScaleProp]

----------------------------------------------------------------------------
(* C17: whenever a controller is live, the reduced level (the               *)
(* 'compact-mode-smaller' class, scale 0.8, base font 11px) is on the root  *)
(* only while that controller is compact and manual.                        *)
SmallerInEffect ==
    \/ "compact-mode-smaller" \in rootClasses
    \/ rootStyle[ScaleProp] = NumberToString(SmallerScale)
    \/ rootStyle[FontProp] = Px(SmallerFont)

C17_SmallerOnlyManualCompact ==
    compactMobileMode # 0 /\ SmallerInEffect =>
       /\ instances[compactMobileMode].isCompactMode
       /\ instances[compactMobileMode].isManualMode

----------------------------------------------------------------------------
(* C18: enableCompactMode and disableCompactMode leave isManualMode as it   *)
(* is, called directly or from the width evaluation, from every reachable   *)
(* state; and after a direct enable or disable of an auto-mode controller   *)
(* an evaluation at any width still sets isCompactMode to                   *)
(* (width <= breakpoint).                                                   *)
ManualAfter(W, c) == W.instances[c].isManualMode

StillFollowsWidth(W, c) ==
    \A w \in Widths :
       autoDetectAndApply([W EXCEPT !.innerWidth = w], c).instances[c].isCompactMode
          = (w <= instances[c].config.breakpoint)

C18_EnableDisableKeepMode ==
    \A c \in Controllers :
       /\ ManualAfter(enableCompactMode(World, c), c) = instances[c].isManualMode
       /\ ManualAfter(disableCompactMode(World, c), c) = instances[c].isManualMode
       /\ \A w \in Widths :
             /\ ManualAfter(autoDetectAndApply(WorldAt(w), c), c) = instances[c].isManualMode
             /\ ManualAfter(handleMediaQueryChange(WorldAt(w), c), c) = instances[c].isManualMode
       /\ AutoMode(instances[c]) =>
             /\ StillFollowsWidth(enableCompactMode(World, c), c)
             /\ StillFollowsWidth(disableCompactMode(World, c), c)

(* enableCompactMode has just switched the live controller to compact at a  *)
(* window wider than its breakpoint, and the controller is still in auto    *)
(* mode                                                                     *)
C18_Witness ==
    /\ last.op = "enableCompactMode" /\ Len(dispatched) = 1
    /\ AutoMode(instances[last.c])
    /\ instances[last.c].isCompactMode
    /\ innerWidth > instances[last.c].config.breakpoint

----------------------------------------------------------------------------
(* C19: disableCompactMode on a compact controller, whatever the level on   *)
(* the root, leaves neither 'compact-mode' nor 'compact-mode-smaller' and   *)
(* removes the three properties (they read as unset, not as a value); the   *)
(* subscribers of every 'disabled' event find the root so. With breakpoint  *)
(* 480 and scale 0.857, an auto evaluation at width 375 gives compact with  *)
(* "0.857" published, and one at width 800 after it gives not compact with  *)
(* the properties removed.                                                  *)
RootCleared(root) ==
    /\ root.classes \cap MarkerClasses = {}
    /\ \A p \in CSSProps : root.style[p] = NoValue

C19_Scenario(c) ==
    LET W1 == autoDetectAndApply(WorldAt(375), c)
        W2 == autoDetectAndApply([W1 EXCEPT !.innerWidth = 800], c)
    IN /\ W1.instances[c].isCompactMode
       /\ W1.rootStyle[ScaleProp] = "0.857"
       /\ "compact-mode" \in W1.rootClasses
       /\ ~W2.instances[c].isCompactMode
       /\ RootCleared(RootOf(W2))

C19_DisableClearsRoot ==
    /\ \A c \in Controllers :
          /\ instances[c].isCompactMode => RootCleared(RootOf(disableCompactMode(World, c)))
          /\ /\ AutoMode(instances[c]) /\ ~instances[c].isCompactMode
             /\ instances[c].config.breakpoint = 480
             /\ instances[c].config.scaleFactor = 857
             => C19_Scenario(c)
    /\ \A e \in 1..Len(dispatched) :
          dispatched[e].action = "disabled" => RootCleared(dispatched[e].seen)

(* a resize to 800 has just switched an auto-mode controller off, and the   *)
(* root is cleared                                                          *)
C19_Witness ==
    /\ last.op = "resize" /\ innerWidth = 800
    /\ \E e \in 1..Len(dispatched) :
          /\ dispatched[e].action = "disabled"
          /\ AutoMode(instances[dispatched[e].source])
          /\ ~instances[dispatched[e].source].isCompactMode
    /\ RootCleared(Root)

----------------------------------------------------------------------------
(* C20: a controller whose config.autoEnable is false is not moved by the   *)
(* window's width: its media-query and resize handlers, run at any width,   *)
(* change nothing at all; its construction evaluates nothing (not compact,  *)
(* root untouched, no event); and of its methods only toggleCompactMode,    *)
(* enableCompactMode and disableCompactMode (which destroy calls) change    *)
(* isCompactMode: setCompactModeLevel and updateConfig do not.              *)
ConstructedInert(W) ==
    LET n == Len(W.instances)
    IN ~W.instances[n].config.autoEnable =>
          /\ ~W.instances[n].isCompactMode
          /\ RootOf(W) = Root
          /\ W.events = <<>>

----------------------------------------------------------------------------
(* C13: while the hook is mounted and holds a controller, after every step  *)
(* (a hook or controller operation, a width evaluation) and the delivery of *)
(* its events, the hook's isCompactMode and isManualMode equal that         *)
(* controller's, and while the controller is compact the hook's scaleFactor *)
(* is the scale factor published on the root.                               *)
C13_HookMirrorsController ==
    hook.mounted /\ hook.compactMode # 0 =>
       /\ hook.isCompactMode = instances[hook.compactMode].isCompactMode
       /\ hook.isManualMode = instances[hook.compactMode].isManualMode
       /\ instances[hook.compactMode].isCompactMode =>
             NumberToString(hook.scaleFactor) = rootStyle[ScaleProp]

----------------------------------------------------------------------------
(* C14: a callback of a mounted hook does nothing exactly when there is no  *)
(* live controller (then it changes nothing and dispatches nothing), and    *)
(* otherwise it is the live controller that it calls: the controller a hook *)
(* call went to is the one getCompactMobileMode() returns.                  *)
C14_HookCallsLiveController ==
    last.op \in HookOps =>
       /\ last.c = getCompactMobileMode
       /\ last.c = 0 => dispatched = <<>>

----------------------------------------------------------------------------
(* C15: of the timers handleViewportChanges has set, at most one per event  *)
(* type (resize, orientationchange) is pending at any time.                 *)
Pending(kind) == {t \in viewport.timers : t.kind = kind}

C15_OnePendingTimerPerEvent ==
    /\ Cardinality(Pending("resize")) <= 1
    /\ Cardinality(Pending("orientationchange")) <= 1

----------------------------------------------------------------------------
(* C16: once the cleanup function has run, the callback is not invoked: no *)
(* step after the cleanup is a timer running the callback.                  *)
C16_NoCallbackAfterCleanup ==
    viewport.cleaned => viewport.step # "callback"

----------------------------------------------------------------------------
(* C22: while the live controller is compact, the 'compact-mode-smaller'    *)
(* class is on the root if and only if the published scale factor is 0.8    *)
(* and the published base font is 11px.                                     *)
C22_LevelClassMatchesValues ==
    compactMobileMode # 0 /\ instances[compactMobileMode].isCompactMode =>
       ("compact-mode-smaller" \in rootClasses
          <=> /\ rootStyle[ScaleProp] = NumberToString(SmallerScale)
              /\ rootStyle[FontProp] = Px(SmallerFont))

----------------------------------------------------------------------------
(* C23: from every reachable state, updateConfig on the live controller     *)
(* with any new configuration leaves isCompactMode and isManualMode as they *)
(* are and dispatches no event; and after an updateConfig exactly one       *)
(* media-query 'change' listener of the controller is registered, on a list *)
(* with the controller's breakpoint.                                        *)
ListenersOf(W, c) ==
    {<<m, l>> \in (1..Len(W.mediaQueryLists)) \X (1..MaxLists) :
        /\ l <= Len(W.mediaQueryLists[m].listeners)
        /\ W.mediaQueryLists[m].listeners[l].this = c}

C23_UpdateConfigFrame ==
    /\ compactMobileMode # 0 =>
          \A newConfig \in PartialConfigs :
             LET c == compactMobileMode
                 W1 == updateConfig(World, c, newConfig)
             IN /\ W1.instances[c].isCompactMode = instances[c].isCompactMode
                /\ W1.instances[c].isManualMode = instances[c].isManualMode
                /\ W1.events = <<>>
    /\ last.op = "updateConfig" =>
          /\ dispatched = <<>>
          /\ Cardinality(ListenersOf(World, last.c)) = 1
          /\ \A ml \in ListenersOf(World, last.c) :
                mediaQueryLists[ml[1]].breakpoint = instances[last.c].config.breakpoint

----------------------------------------------------------------------------
(* C21: with a touch listener on document, a touchstart on an interactive   *)
(* element sets its inline opacity to "0.8"; touch events of the other      *)
(* types, and touchstarts on other elements, change nothing. An element     *)
(* whose opacity is "0.8" has a feedback timer pending that is due within   *)
(* 100 ms, so under any interleaving of touchstarts the opacity is cleared  *)
(* again, and once the touches end every opacity is cleared for good. A     *)
(* cleared opacity becomes "0.8" only by a touchstart on that element.      *)
Interactive == {el \in Elements : isInteractiveElement(el)}

C21_Feedback ==
    /\ \A el \in Elements, type \in TouchEvents :
          LET t == DispatchTouchEvent(touch, type, el, touch.listeners)
          IN IF type = "touchstart" /\ el \in Interactive /\ touch.listeners > 0
             THEN t.opacity[el] = "0.8"
             ELSE t = touch
    /\ \A el \in Elements :
          touch.opacity[el] = "0.8" =>
             /\ el \in Interactive
             /\ \E t \in touch.timers : t.element = el /\ t.remaining <= FeedbackDelay

C21_StaysCleared ==
    \A el \in Elements :
       touch.opacity[el] = "" /\ touch'.opacity[el] = "0.8" => touch'.step = el

C21_TouchFeedbackTransient ==
    /\ []C21_Feedback
    /\ [][C21_StaysCleared]_vars
    /\ \A el \in Elements : (touch.opacity[el] = "0.8") ~> (touch.opacity[el] = "")
    /\ <>[](\A el \in Elements : touch.opacity[el] = "")

(* one listener, two touchstarts on the same element and on no other, and   *)
(* the last of their timers has just fired: the opacity is cleared          *)
C21_Witness ==
    /\ touch.listeners = 1 /\ touch.created = 2
    /\ touch.step = "timer" /\ touch.timers = {}
    /\ \E el \in Interactive :
          /\ touch.transition[el] # "" /\ touch.opacity[el] = ""
          /\ \A other \in Elements \ {el} : touch.transition[other] = ""

====
